---- MODULE Spec2Model ----
(***************************************************************************)
(* TinyShade: the graph compiler and frame scheduler (TinyShade.compile,   *)
(* getRelevantPasses, createBindGroup, run) and the uniform buffer layout  *)
(* (UniformLayout).                                                        *)
(*                                                                         *)
(* JavaScript arrays are 0-based, TLA+ sequences 1-based: stage index i of *)
(* the code is stage i+1 here, and the terminal stage, index               *)
(* passes.length in the code, is stage Len(passes)+1.  Texture slots and   *)
(* binding numbers keep the code's 0-based values.                         *)
(***************************************************************************)
EXTENDS Integers, Sequences, FiniteSets, TLC

(***************************************************************************)
(* Bounds of the model.                                                    *)
(***************************************************************************)
\* stages declared before the terminal stage, frame-loop specification
MaxPasses == 2
\* stages declared before the terminal stage, declaration-chain specifications
MaxStages == 3
\* frames submitted by the frame loop
MaxFrames == 3
\* uniforms a client registers on top of the reserved ones
MaxUniforms == 2
\* calls of UniformLayout.update
MaxUpdates == 2
\* largest hardware limit of a workgroup axis
MaxLimit == 40
\* rows of a sequencer timeline
MaxScenes == 3
\* command buffers a timer submits
MaxResolves == 3

\* names handed to addCompute / addAtomicCompute / addPass: the k-th declared
\* stage is called PassNames[k]
PassNames == <<"a", "b", "c", "d", "e">>
\* names handed to addTexture
TextureNames == {"tex0", "tex1"}

Range(s) == {s[k] : k \in DOMAIN s}

Min(x, y) == IF x <= y THEN x ELSE y
Max(x, y) == IF x >= y THEN x ELSE y

(***************************************************************************)
(* Identifiers of the shader-source conventions.  A WGSL identifier is a   *)
(* pair (id, of): u, samp, outTex and data stand alone, a global texture   *)
(* is ("global", name), a stage output ("pass", name), a feedback view     *)
(* prev_<name> ("prev", name) and another stage's buffer <name>_data       *)
(* ("pass_data", name).                                                    *)
(***************************************************************************)
Ident(id, of) == [id |-> id, of |-> of]

\* a stage's source text, as the set of identifiers that occur in it as
\* whole words
WgslPlain == {Ident("u", "")}
WgslSampling == {Ident("u", ""), Ident("samp", ""), Ident("pass", "a")}
WgslEmpty == {}

(***************************************************************************)
(* The dependency argument `deps?: string[]`: absent, or a list of names.  *)
(***************************************************************************)
NoDeps == [present |-> FALSE, list |-> <<>>]
Deps(list) == [present |-> TRUE, list |-> list]

VARIABLES
    \* TinyShade
    passes,          \* IPass[]: the declared stages
    globalTextures,  \* Map<string, GPUTexture>: its keys in insertion order
    mainPassShader,  \* source text of the terminal stage
    mainDeps,        \* _mainDeps
    isCompiled,
    passLayouts,     \* GPUBindGroupLayout[], by stage index
    mainPipeline,    \* whether mainPipeline is set
    frameCounter,
    armed,           \* callbacks handed to requestAnimationFrame, not yet run
    \* GPU memory
    tex,             \* per stage, per slot: the frame that last wrote it, -1 if none
    buf,             \* per stage: 0 if the linear buffer is all zero, 1 otherwise
    \* history
    frames,          \* the submitted frames: the commands of each, in order
    resolved,        \* per stage index: what getRelevantPasses returned to compile
    \* UniformLayout
    entries,
    currentOffset,   \* _currentOffset
    isBuilt,
    floatView,       \* Float32Array over the buffer, [] before build
    setters,         \* Map name -> index of the entry whose setter it holds
    dynamicUpdates,  \* entries whose value is a function, in build order
    frameCount,
    currentTime,
    \* the GPU device
    limits,          \* adapter.limits: maxComputeWorkgroupSizeX / Y
    device,          \* whether initWebGPU has set this.device
    workgroupSize,
    invalidPipelines, \* stages whose pipeline the device holds as invalid; 0 is
                      \* the terminal stage
    \* TSSequencer
    timeline,        \* any[][]: rows [duration, flags, sceneId]
    L,               \* length of the track, in samples
    seconds,         \* the time last handed to update, in milliseconds; -1: none
    state,           \* what the last update returned, and the cursor it ended on
    \* WebGPUTiming
    supportsTimeStampQuery,
    currentIndex,
    isMapping,
    mapState,        \* readBuffer.mapState
    awaiting,        \* the passTimings of the resolve calls suspended at
                     \* `await mapAsync`
    submits,         \* command buffers resolve has submitted
    results,         \* the pairs the last onResult call reported on
    handed,          \* the pairs allocateIndices returned since the last reset
    \* TinyShadeBake and TinyShadeRunner
    graph,           \* the baked ITinyShadeGraph the runner was constructed with
    runnerFrame,     \* `frame` of TinyShadeRunner.run
    runnerFrames     \* history: the frames the runner submitted

engineVars == <<passes, globalTextures, mainPassShader, mainDeps, isCompiled,
                passLayouts, mainPipeline, frameCounter, armed, tex, buf, frames,
                resolved>>
uniformVars == <<entries, currentOffset, isBuilt, floatView, setters,
                 dynamicUpdates, frameCount, currentTime>>
deviceVars == <<limits, device, workgroupSize, invalidPipelines>>
sequencerVars == <<timeline, L, seconds, state>>
timingVars == <<supportsTimeStampQuery, currentIndex, isMapping, mapState,
                awaiting, submits, results, handed>>
runnerVars == <<graph, runnerFrame, runnerFrames>>
pluginVars == <<sequencerVars, timingVars, runnerVars>>
vars == <<engineVars, uniformVars, deviceVars, pluginVars>>


(***************************************************************************)
(* DependencyResolver: TinyShade.getRelevantPasses.                        *)
(***************************************************************************)
Indices(ps) == [k \in 1..Len(ps) |-> k]

\* the pass object a stage index stands for: createBindGroup builds a fresh
\* { name: 'main', isMain: true, dependencies: _mainDeps } for index
\* passes.length, compile appends the same object to the stage list
CurrentPass(ps, md, stageIdx) ==
    IF stageIdx = Len(ps) + 1
    THEN [idx |-> stageIdx, isMain |-> TRUE, dependencies |-> md]
    ELSE [idx |-> stageIdx, isMain |-> FALSE,
          dependencies |-> ps[stageIdx].dependencies]

\* a faulty variant: the named stages come in the order the list names them
getRelevantPassesListOrder(ps, currentPass) ==
    LET list == currentPass.dependencies.list
        named == SelectSeq(list, LAMBDA n : \E k \in 1..Len(ps) : ps[k].name = n)
        base == IF currentPass.dependencies.present
                THEN [j \in 1..Len(named) |->
                        CHOOSE k \in 1..Len(ps) : ps[k].name = named[j]]
                ELSE Indices(ps)
    IN  IF ~currentPass.isMain /\ currentPass.idx \notin Range(base)
        THEN Append(base, currentPass.idx)
        ELSE base

\* a faulty variant: an empty list is taken for an absent one
getRelevantPassesEmptyIsAbsent(ps, currentPass) ==
    LET base == IF currentPass.dependencies.present
                   /\ Len(currentPass.dependencies.list) > 0
                THEN SelectSeq(Indices(ps),
                       LAMBDA k : ps[k].name \in Range(currentPass.dependencies.list))
                ELSE Indices(ps)
    IN  IF ~currentPass.isMain /\ currentPass.idx \notin Range(base)
        THEN Append(base, currentPass.idx)
        ELSE base

\* the visible stages of currentPass, as indices into passes: the filter keeps
\* declaration order, a Set keeps insertion order and drops a repeated object
getRelevantPasses(ps, currentPass) ==
    LET base == IF currentPass.dependencies.present
                THEN SelectSeq(Indices(ps),
                       LAMBDA k : ps[k].name \in Range(currentPass.dependencies.list))
                ELSE Indices(ps)
    IN  IF ~currentPass.isMain /\ currentPass.idx \notin Range(base)
        THEN Append(base, currentPass.idx)
        ELSE base

(***************************************************************************)
(* BindingLayoutSynthesizer: the layout loop of TinyShade.compile.         *)
(* acc is the pair (b, entries) of the loop: the next binding number and   *)
(* the entries pushed so far.                                              *)
(***************************************************************************)
LayoutPush(acc, kind, var) ==
    [b |-> acc.b + 1,
     entries |-> Append(acc.entries, [binding |-> acc.b, kind |-> kind, var |-> var])]

RECURSIVE LayoutGlobals(_, _, _)
LayoutGlobals(acc, gts, k) ==
    IF k > Len(gts) THEN acc
    ELSE LayoutGlobals(LayoutPush(acc, "texture", Ident("global", gts[k])), gts, k + 1)

\* a faulty variant: a compute stage without image still uses up a number
LayoutPassGap(acc, p, isSelf) ==
    IF p.type = "compute"
    THEN LET a1 == IF p.ntex > 0
                   THEN IF isSelf
                        THEN LayoutPush(acc, "storageTexture", Ident("outTex", ""))
                        ELSE LayoutPush(acc, "texture", Ident("pass", p.name))
                   ELSE [acc EXCEPT !.b = acc.b + 1]
         IN  IF p.storageBuffer
             THEN LayoutPush(a1, "storage",
                             IF isSelf THEN Ident("data", "")
                                       ELSE Ident("pass_data", p.name))
             ELSE a1
    ELSE LayoutPush(LayoutPush(acc, "texture", Ident("pass", p.name)),
                    "texture", Ident("prev", p.name))

\* a faulty variant: only the stage's own entries are bound
LayoutPassOwnOnly(acc, p, isSelf) ==
    IF ~isSelf THEN acc
    ELSE IF p.type = "compute"
    THEN LET a1 == IF p.ntex > 0
                   THEN LayoutPush(acc, "storageTexture", Ident("outTex", ""))
                   ELSE acc
         IN  IF p.storageBuffer THEN LayoutPush(a1, "storage", Ident("data", ""))
                                ELSE a1
    ELSE LayoutPush(LayoutPush(acc, "texture", Ident("pass", p.name)),
                    "texture", Ident("prev", p.name))

\* a faulty variant: a compute stage seen by another stage is given a
\* previous-frame entry as a fragment stage is
LayoutPassComputePrev(acc, p, isSelf) ==
    IF p.type = "compute"
    THEN LET a1 == IF p.ntex > 0
                   THEN IF isSelf
                        THEN LayoutPush(acc, "storageTexture", Ident("outTex", ""))
                        ELSE LayoutPush(LayoutPush(acc, "texture", Ident("pass", p.name)),
                                        "texture", Ident("prev", p.name))
                   ELSE acc
         IN  IF p.storageBuffer
             THEN LayoutPush(a1, "storage",
                             IF isSelf THEN Ident("data", "")
                                       ELSE Ident("pass_data", p.name))
             ELSE a1
    ELSE LayoutPush(LayoutPush(acc, "texture", Ident("pass", p.name)),
                    "texture", Ident("prev", p.name))

\* the entries one visible stage p contributes to the layout of a stage
LayoutPass(acc, p, isSelf) ==
    IF p.type = "compute"
    THEN LET a1 == IF p.ntex > 0
                   THEN IF isSelf
                        THEN LayoutPush(acc, "storageTexture", Ident("outTex", ""))
                        ELSE LayoutPush(acc, "texture", Ident("pass", p.name))
                   ELSE acc
         IN  IF p.storageBuffer
             THEN LayoutPush(a1, "storage",
                             IF isSelf THEN Ident("data", "")
                                       ELSE Ident("pass_data", p.name))
             ELSE a1
    ELSE LayoutPush(LayoutPush(acc, "texture", Ident("pass", p.name)),
                    "texture", Ident("prev", p.name))

RECURSIVE LayoutPasses(_, _, _, _, _)
LayoutPasses(acc, ps, currentPass, rel, k) ==
    IF k > Len(rel) THEN acc
    ELSE LayoutPasses(
           LayoutPass(acc, ps[rel[k]],
                      ~currentPass.isMain /\ currentPass.idx = rel[k]),
           ps, currentPass, rel, k + 1)

\* layoutEntries of one stage
LayoutEntries(ps, md, gts, stageIdx) ==
    LET currentPass == CurrentPass(ps, md, stageIdx)
        a1 == LayoutPush([b |-> 0, entries |-> <<>>], "uniform", Ident("u", ""))
        a2 == LayoutGlobals(a1, gts, 1)
        a3 == LayoutPush(a2, "sampler", Ident("samp", ""))
        a4 == LayoutPasses(a3, ps, currentPass, getRelevantPasses(ps, currentPass), 1)
    IN  a4.entries

(***************************************************************************)
(* TinyShade.createBindGroup.  A resource is the uniform buffer, a global  *)
(* texture, the sampler, slot `slot` of stage `pass`, or the linear buffer *)
(* of stage `pass`.                                                        *)
(***************************************************************************)
Resource(kind, of, pass, slot) == [kind |-> kind, of |-> of, pass |-> pass, slot |-> slot]

BindPush(acc, resource) ==
    [b |-> acc.b + 1,
     entries |-> Append(acc.entries, [binding |-> acc.b, resource |-> resource])]

RECURSIVE BindGlobals(_, _, _)
BindGlobals(acc, gts, k) ==
    IF k > Len(gts) THEN acc
    ELSE BindGlobals(BindPush(acc, Resource("globalTexture", gts[k], 0, 0)), gts, k + 1)

\* a faulty variant: a fragment stage gets the slot it is about to render into
\* as its own history
BindPassWriteSlot(acc, ps, pIdx, isSelf, writeIdx) ==
    LET p == ps[pIdx]
    IN  IF p.type = "compute"
        THEN LET a1 == IF p.ntex > 0
                       THEN BindPush(acc, Resource("texture", "", pIdx, 0))
                       ELSE acc
             IN  IF p.storageBuffer
                 THEN BindPush(a1, Resource("buffer", "", pIdx, 0))
                 ELSE a1
        ELSE BindPush(BindPush(acc, Resource("texture", "", pIdx, writeIdx)),
                      Resource("texture", "", pIdx, writeIdx))

\* a faulty variant: another fragment stage's slots are bound the wrong way
\* round
BindPassOthersSwapped(acc, ps, pIdx, isSelf, writeIdx) ==
    LET p == ps[pIdx]
        readIdx == 1 - writeIdx
    IN  IF p.type = "compute"
        THEN LET a1 == IF p.ntex > 0
                       THEN BindPush(acc, Resource("texture", "", pIdx, 0))
                       ELSE acc
             IN  IF p.storageBuffer
                 THEN BindPush(a1, Resource("buffer", "", pIdx, 0))
                 ELSE a1
        ELSE IF isSelf
             THEN BindPush(BindPush(acc, Resource("texture", "", pIdx, readIdx)),
                           Resource("texture", "", pIdx, readIdx))
             ELSE BindPush(BindPush(acc, Resource("texture", "", pIdx, readIdx)),
                           Resource("texture", "", pIdx, writeIdx))

\* a faulty variant: a stage's linear buffer is bound before its image
BindPassBufferFirst(acc, ps, pIdx, isSelf, writeIdx) ==
    LET p == ps[pIdx]
        readIdx == 1 - writeIdx
    IN  IF p.type = "compute"
        THEN LET a1 == IF p.storageBuffer
                       THEN BindPush(acc, Resource("buffer", "", pIdx, 0))
                       ELSE acc
             IN  IF p.ntex > 0
                 THEN BindPush(a1, Resource("texture", "", pIdx, 0))
                 ELSE a1
        ELSE IF isSelf
             THEN BindPush(BindPush(acc, Resource("texture", "", pIdx, readIdx)),
                           Resource("texture", "", pIdx, readIdx))
             ELSE BindPush(BindPush(acc, Resource("texture", "", pIdx, writeIdx)),
                           Resource("texture", "", pIdx, readIdx))

\* a faulty variant: a fragment stage is treated in its own bind group like
\* any other stage, so its own name is the slot it is rendering into
BindPassSelfAsOther(acc, ps, pIdx, isSelf, writeIdx) ==
    LET p == ps[pIdx]
        readIdx == 1 - writeIdx
    IN  IF p.type = "compute"
        THEN LET a1 == IF p.ntex > 0
                       THEN BindPush(acc, Resource("texture", "", pIdx, 0))
                       ELSE acc
             IN  IF p.storageBuffer
                 THEN BindPush(a1, Resource("buffer", "", pIdx, 0))
                 ELSE a1
        ELSE BindPush(BindPush(acc, Resource("texture", "", pIdx, writeIdx)),
                      Resource("texture", "", pIdx, readIdx))

\* the entries one visible stage contributes to a bind group
BindPass(acc, ps, pIdx, isSelf, writeIdx) ==
    LET p == ps[pIdx]
        readIdx == 1 - writeIdx
    IN  IF p.type = "compute"
        THEN LET a1 == IF p.ntex > 0
                       THEN BindPush(acc, Resource("texture", "", pIdx, 0))
                       ELSE acc
             IN  IF p.storageBuffer
                 THEN BindPush(a1, Resource("buffer", "", pIdx, 0))
                 ELSE a1
        ELSE IF isSelf
             THEN BindPush(BindPush(acc, Resource("texture", "", pIdx, readIdx)),
                           Resource("texture", "", pIdx, readIdx))
             ELSE BindPush(BindPush(acc, Resource("texture", "", pIdx, writeIdx)),
                           Resource("texture", "", pIdx, readIdx))

RECURSIVE BindPasses(_, _, _, _, _, _)
BindPasses(acc, ps, currentPass, rel, writeIdx, k) ==
    IF k > Len(rel) THEN acc
    ELSE BindPasses(
           BindPass(acc, ps, rel[k],
                    ~currentPass.isMain /\ currentPass.idx = rel[k], writeIdx),
           ps, currentPass, rel, writeIdx, k + 1)

\* the entries of the bind group of stage stageIdx for write slot writeIdx
createBindGroup(ps, md, gts, stageIdx, writeIdx) ==
    LET currentPass == CurrentPass(ps, md, stageIdx)
        a1 == BindPush([b |-> 0, entries |-> <<>>], Resource("uniformBuffer", "", 0, 0))
        a2 == BindGlobals(a1, gts, 1)
        a3 == BindPush(a2, Resource("sampler", "", 0, 0))
        a4 == BindPasses(a3, ps, currentPass, getRelevantPasses(ps, currentPass),
                         writeIdx, 1)
    IN  a4.entries


(***************************************************************************)
(* Stage declaration: addCompute, addAtomicCompute, addPass, addTexture.   *)
(* A new texture has never been written (-1), a new buffer is all zero.    *)
(***************************************************************************)
IPass(name, type, shader, ntex, storageBuffer, isAtomic, dependencies) ==
    [name |-> name, type |-> type, shader |-> shader, ntex |-> ntex,
     storageBuffer |-> storageBuffer, isAtomic |-> isAtomic,
     pipelines |-> FALSE, dependencies |-> dependencies]

PushPass(p) ==
    /\ passes' = Append(passes, p)
    /\ tex' = Append(tex, [k \in 1..p.ntex |-> -1])
    /\ buf' = Append(buf, 0)
    /\ UNCHANGED <<globalTextures, mainPassShader, mainDeps, isCompiled, passLayouts,
                   mainPipeline, frameCounter, armed, frames, resolved>>
    /\ UNCHANGED uniformVars
    /\ UNCHANGED deviceVars
    /\ UNCHANGED pluginVars

addCompute(name, wgsl, size, deps) ==
    PushPass(IPass(name, "compute", wgsl, 1, size > 0, FALSE, deps))

addAtomicCompute(name, wgsl, bufferSize, deps) ==
    PushPass(IPass(name, "compute", wgsl, 0, TRUE, TRUE, deps))

addPass(name, wgsl, deps) ==
    PushPass(IPass(name, "fragment", wgsl, 2, FALSE, FALSE, deps))

\* Map.set: a new key goes last, a key already present keeps its place
addTexture(name) ==
    /\ globalTextures' = IF name \in Range(globalTextures) THEN globalTextures
                         ELSE Append(globalTextures, name)
    /\ UNCHANGED <<passes, mainPassShader, mainDeps, isCompiled, passLayouts,
                   mainPipeline, frameCounter, armed, tex, buf, frames, resolved>>
    /\ UNCHANGED uniformVars
    /\ UNCHANGED deviceVars
    /\ UNCHANGED pluginVars

(***************************************************************************)
(* UniformLayout.  A JavaScript number is modelled by an integer (a double *)
(* holds every integer of the model exactly); a UniformValue is a number,  *)
(* an array of numbers or a function of (time, frame).                     *)
(***************************************************************************)
\* significand bits of an element of a Float32Array
F32Bits == 24

Num(n) == [isNum |-> TRUE, v |-> <<n>>]
Vec(v) == [isNum |-> FALSE, v |-> v]
Const(r) == [fn |-> "", c |-> r]
Fn(id) == [fn |-> id, c |-> Num(0)]

\* the per-frame functions a client registers
UniformFn(id, time, frameNo) ==
    CASE id = "jitter" -> Num(time + 1)
      [] id = "beat" -> Vec(<<time, frameNo>>)

Pow2(k) == 2 ^ k

CeilDiv(x, d) == (x + d - 1) \div d

RECURSIVE F32Shift(_, _)
\* how many low bits of the magnitude a do not fit in the significand
F32Shift(a, s) == IF a \div Pow2(s) < Pow2(F32Bits) THEN s ELSE F32Shift(a, s + 1)

\* the store into a Float32Array element: round to nearest, ties to even
Fround(n) ==
    LET a == IF n < 0 THEN -n ELSE n
        s == F32Shift(a, 0)
        q == a \div Pow2(s)
        r == a % Pow2(s)
        up == s > 0 /\ (2 * r > Pow2(s) \/ (2 * r = Pow2(s) /\ q % 2 = 1))
        m == (IF up THEN q + 1 ELSE q) * Pow2(s)
    IN  IF n < 0 THEN -m ELSE m

\* inferType: the sample of a function is its value at (0, 0)
Sample(value) == IF value.fn # "" THEN UniformFn(value.fn, 0, 0) ELSE value.c

Supported(value) == Sample(value).isNum \/ Len(Sample(value).v) \in {2, 3, 4}

inferType(value) ==
    LET sample == Sample(value)
    IN  IF sample.isNum THEN [type |-> "f32", size |-> 4, align |-> 4]
        ELSE CASE Len(sample.v) = 2 -> [type |-> "vec2f", size |-> 8, align |-> 8]
               [] Len(sample.v) = 3 -> [type |-> "vec3f", size |-> 12, align |-> 16]
               [] Len(sample.v) = 4 -> [type |-> "vec4f", size |-> 16, align |-> 16]

\* a faulty variant: entries are packed without alignment
RegisterPacked(u, name, value) ==
    LET t == inferType(value)
    IN  [u EXCEPT
           !.entries = Append(@, [name |-> name, type |-> t.type, size |-> t.size,
                                  align |-> t.align, offset |-> u.currentOffset,
                                  value |-> value]),
           !.currentOffset = u.currentOffset + t.size]

\* a faulty variant: the offset is rounded down to the alignment
RegisterRoundedDown(u, name, value) ==
    LET t == inferType(value)
        offset == (u.currentOffset \div t.align) * t.align
    IN  [u EXCEPT
           !.entries = Append(@, [name |-> name, type |-> t.type, size |-> t.size,
                                  align |-> t.align, offset |-> offset,
                                  value |-> value]),
           !.currentOffset = offset + t.size]

\* The object state of a UniformLayout, as a record u.
\* addUniform past its two throws (built, unsupported value)
Register(u, name, value) ==
    LET t == inferType(value)
        offset == CeilDiv(u.currentOffset, t.align) * t.align
    IN  [u EXCEPT
           !.entries = Append(@, [name |-> name, type |-> t.type, size |-> t.size,
                                  align |-> t.align, offset |-> offset,
                                  value |-> value]),
           !.currentOffset = offset + t.size]

\* the setter closure of build: floatView[idx] = x, or floatView.set(xs, idx)
Setter(view, idx, val) ==
    [k \in DOMAIN view |->
       IF k - 1 >= idx /\ k - 1 < idx + Len(val.v)
       THEN Fround(val.v[k - idx])
       ELSE view[k]]

Resolve(u, value) ==
    IF value.fn # "" THEN UniformFn(value.fn, u.currentTime, u.frameCount) ELSE value.c

RECURSIVE BuildEntries(_, _)
\* the for-loop of build, from entry k on
BuildEntries(u, k) ==
    IF k > Len(u.entries) THEN u
    ELSE LET e == u.entries[k]
             u1 == [u EXCEPT !.setters =
                       [n \in DOMAIN @ \cup {e.name} |-> IF n = e.name THEN k ELSE @[n]]]
         IN  IF e.value.fn # ""
             THEN BuildEntries([u1 EXCEPT !.dynamicUpdates = Append(@, k)], k + 1)
             ELSE BuildEntries(
                    [u1 EXCEPT !.floatView =
                        Setter(@, e.offset \div 4, Resolve(u1, e.value))], k + 1)

build(u) ==
    IF u.isBuilt THEN u
    ELSE LET totalSize == CeilDiv(u.currentOffset, 16) * 16
             u1 == [u EXCEPT !.floatView = [k \in 1..(totalSize \div 4) |-> 0]]
         IN  [BuildEntries(u1, 1) EXCEPT !.isBuilt = TRUE]

\* setters.get(name)?.(val)
CallSetter(u, name, val) ==
    IF name \in DOMAIN u.setters
    THEN [u EXCEPT !.floatView =
            Setter(@, u.entries[u.setters[name]].offset \div 4, val)]
    ELSE u

\* a faulty variant: a function-valued entry is written with its sample
RunDynamicSample(u, k) ==
    IF k > Len(u.dynamicUpdates) THEN u
    ELSE LET e == u.entries[u.dynamicUpdates[k]]
         IN  [u EXCEPT !.floatView = Setter(@, e.offset \div 4, Sample(e.value))]

RECURSIVE RunDynamic(_, _)
RunDynamic(u, k) ==
    IF k > Len(u.dynamicUpdates) THEN u
    ELSE LET e == u.entries[u.dynamicUpdates[k]]
         IN  RunDynamic([u EXCEPT !.floatView =
                           Setter(@, e.offset \div 4, Resolve(u, e.value))], k + 1)

updateLayout(u, time) ==
    LET u1 == [build(u) EXCEPT !.currentTime = time, !.frameCount = @ + 1]
    IN  RunDynamic(CallSetter(u1, "time", Num(time)), 1)

updateSequencerLayout(u, sceneId, progress, flags) ==
    CallSetter(CallSetter(CallSetter(build(u), "sceneId", Num(sceneId)),
                          "progress", Num(progress)), "flags", Num(flags))

\* the constructor: the reserved entries
NewUniformLayout(initialResolution) ==
    Register(Register(Register(Register(Register(
        [entries |-> <<>>, currentOffset |-> 0, isBuilt |-> FALSE,
         floatView |-> <<>>, setters |-> <<>>, dynamicUpdates |-> <<>>,
         frameCount |-> 0, currentTime |-> 0],
        "resolution", Const(Vec(initialResolution))),
        "time", Const(Num(0))),
        "sceneId", Const(Num(0))),
        "progress", Const(Num(0))),
        "flags", Const(Num(0)))

\* the object state held in the variables
Layout ==
    [entries |-> entries, currentOffset |-> currentOffset, isBuilt |-> isBuilt,
     floatView |-> floatView, setters |-> setters, dynamicUpdates |-> dynamicUpdates,
     frameCount |-> frameCount, currentTime |-> currentTime]

StoreLayout(u) ==
    /\ entries' = u.entries
    /\ currentOffset' = u.currentOffset
    /\ isBuilt' = u.isBuilt
    /\ floatView' = u.floatView
    /\ setters' = u.setters
    /\ dynamicUpdates' = u.dynamicUpdates
    /\ frameCount' = u.frameCount
    /\ currentTime' = u.currentTime


(***************************************************************************)
(* UniformLayout's methods as actions.                                     *)
(***************************************************************************)
\* a faulty variant: the built layout still takes entries
addUniformAfterBuild(name, value) ==
    /\ IF ~Supported(value)
       THEN UNCHANGED uniformVars
       ELSE StoreLayout(Register(Layout, name, value))
    /\ UNCHANGED engineVars
    /\ UNCHANGED deviceVars
    /\ UNCHANGED pluginVars

\* addUniform throws once the layout is built, and on a value that is neither
\* a number nor an array of 2, 3 or 4 numbers
addUniform(name, value) ==
    /\ IF isBuilt \/ ~Supported(value)
       THEN UNCHANGED uniformVars
       ELSE StoreLayout(Register(Layout, name, value))
    /\ UNCHANGED engineVars
    /\ UNCHANGED deviceVars
    /\ UNCHANGED pluginVars

\* get byteSize, get float32Array: build on first use
byteSize ==
    /\ StoreLayout(build(Layout))
    /\ UNCHANGED engineVars
    /\ UNCHANGED deviceVars
    /\ UNCHANGED pluginVars

update(time) ==
    /\ StoreLayout(updateLayout(Layout, time))
    /\ UNCHANGED engineVars
    /\ UNCHANGED deviceVars
    /\ UNCHANGED pluginVars

updateSequencer(sceneId, progress, flags) ==
    /\ StoreLayout(updateSequencerLayout(Layout, sceneId, progress, flags))
    /\ UNCHANGED engineVars
    /\ UNCHANGED deviceVars
    /\ UNCHANGED pluginVars

(***************************************************************************)
(* The workgroup size, computed once by initWebGPU.                        *)
(***************************************************************************)
RECURSIVE WhileDouble(_, _, _)
\* while (power * 2 <= n) power *= 2, run for at most `fuel` iterations:
\* exits tells whether the loop condition became false within them
WhileDouble(n, power, fuel) ==
    IF ~(power * 2 <= n) THEN [power |-> power, exits |-> TRUE]
    ELSE IF fuel = 0 THEN [power |-> power, exits |-> FALSE]
    ELSE WhileDouble(n, power * 2, fuel - 1)

\* a faulty variant: the largest power of two strictly below n
largestPowerOf2Below(n) ==
    LET r == WhileDouble(n - 1, 1, n) IN r.power

largestPowerOf2LessThan(n) == WhileDouble(n, 1, n).power

getWorkgroupSize(lim) ==
    [x |-> Min(16, largestPowerOf2LessThan(lim.x)),
     y |-> Min(16, largestPowerOf2LessThan(lim.y)),
     z |-> 1]

\* the part of initWebGPU that the model keeps: the device and the size
initWebGPU ==
    /\ ~device
    /\ device' = TRUE
    /\ workgroupSize' = getWorkgroupSize(limits)
    /\ UNCHANGED <<limits, invalidPipelines>>
    /\ UNCHANGED pluginVars
    /\ UNCHANGED engineVars
    /\ UNCHANGED uniformVars

(***************************************************************************)
(* TinyShade.main and compile: every stage of [...passes, main] gets its   *)
(* layout at its index and its pipeline.  The device either accepts every  *)
(* stage, or one of its calls throws while stage `at` is compiled (after   *)
(* passLayouts[at] is stored, before pipelines[0] is), or it finds stage   *)
(* `at` invalid: createShaderModule and create*Pipeline then return an     *)
(* invalid object and raise no exception, and compile runs to its end.     *)
(***************************************************************************)
NoFault == [kind |-> "none", at |-> 0]
Throws(k) == [kind |-> "throws", at |-> k]
Invalid(k) == [kind |-> "invalid", at |-> k]

compileOn(md, fault) ==
    LET n == Len(passes)
        \* the stages whose layout, and whose pipeline, this run stores
        laidOut == IF fault.kind = "throws" THEN fault.at ELSE n + 1
        built == IF fault.kind = "throws" THEN fault.at - 1 ELSE n + 1
        Id(k) == IF k = n + 1 THEN 0 ELSE k
    IN  /\ passLayouts' = [i \in 1..Max(Len(passLayouts), laidOut) |->
                             IF i <= laidOut
                             THEN LayoutEntries(passes, md, globalTextures, i)
                             ELSE passLayouts[i]]
        /\ resolved' = [i \in 1..Max(Len(resolved), laidOut) |->
                          IF i <= laidOut
                          THEN getRelevantPasses(passes, CurrentPass(passes, md, i))
                          ELSE resolved[i]]
        /\ passes' = [i \in 1..n |->
                        IF i <= built THEN [passes[i] EXCEPT !.pipelines = TRUE]
                        ELSE passes[i]]
        /\ mainPipeline' = (mainPipeline \/ built = n + 1)
        /\ isCompiled' = (isCompiled \/ fault.kind # "throws")
        /\ invalidPipelines' =
             (invalidPipelines \ {Id(k) : k \in 1..built})
               \cup (IF fault.kind = "invalid" THEN {Id(fault.at)} ELSE {})

compile(md) == compileOn(md, NoFault)

\* main; compile begins with setUniforms, which reads uniforms.byteSize
mainOn(wgsl, deps, fault) ==
    /\ mainPassShader' = wgsl
    /\ mainDeps' = deps
    /\ StoreLayout(build(Layout))
    /\ compileOn(deps, fault)
    /\ UNCHANGED <<globalTextures, frameCounter, armed, tex, buf, frames>>
    /\ UNCHANGED <<limits, device, workgroupSize>>
    /\ UNCHANGED pluginVars

main(wgsl, deps) == mainOn(wgsl, deps, NoFault)

(***************************************************************************)
(* TinyShade.run and its frame callback.                                   *)
(***************************************************************************)
run ==
    /\ armed' = armed + 1
    /\ UNCHANGED <<passes, globalTextures, mainPassShader, mainDeps, isCompiled,
                   passLayouts, mainPipeline, frameCounter, tex, buf, frames, resolved>>
    /\ UNCHANGED uniformVars
    /\ UNCHANGED deviceVars
    /\ UNCHANGED pluginVars

Command(op, stage, target, bindGroup, bufAtStart, reads) ==
    [op |-> op, stage |-> stage, target |-> target, bindGroup |-> bindGroup,
     bufAtStart |-> bufAtStart, reads |-> reads]

\* a faulty variant: the write slot never moves
WriteIdxFixed(counter) == 0

\* const writeIdx = frameCounter % 2
WriteIdx(counter) == counter % 2

\* a faulty variant: no buffer is ever cleared
ClearsBufferNever(p) == FALSE

\* if (p.isAtomic && p.storageBuffer) enc.clearBuffer(p.storageBuffer)
ClearsBuffer(p) == p.isAtomic /\ p.storageBuffer

\* the linear buffers a bind group makes writable (var<storage, read_write>)
BoundBuffers(bg) ==
    {bg[k].resource.pass : k \in {j \in DOMAIN bg : bg[j].resource.kind = "buffer"}}

\* what each texture entry of a bind group holds when the stage runs
Reads(bg, texNow) ==
    [k \in DOMAIN bg |->
       IF bg[k].resource.kind = "texture"
       THEN texNow[bg[k].resource.pass][bg[k].resource.slot + 1]
       ELSE -1]

\* The passes.forEach of the frame callback, from stage i on.  acc holds the
\* commands recorded so far and GPU memory as it is once they have run;
\* writers are the stages whose shader stores to the buffers bound to it.
RECURSIVE RecordPasses(_, _, _, _, _, _, _, _)
RecordPasses(ps, md, gts, writeIdx, stamp, writers, i, acc) ==
    IF i > Len(ps) THEN acc
    ELSE
      LET p == ps[i]
          cmds1 == IF ClearsBuffer(p)
                   THEN Append(acc.cmds, Command("clearBuffer", i, -1, <<>>, -1, <<>>))
                   ELSE acc.cmds
          buf1 == IF ClearsBuffer(p) THEN [acc.buf EXCEPT ![i] = 0] ELSE acc.buf
          bg == createBindGroup(ps, md, gts, i, writeIdx)
          buf2 == [j \in DOMAIN buf1 |->
                     IF i \in writers /\ j \in BoundBuffers(bg) THEN 1 ELSE buf1[j]]
      IN  IF p.type = "compute"
          THEN RecordPasses(ps, md, gts, writeIdx, stamp, writers, i + 1,
                 [cmds |-> Append(cmds1, Command("dispatch", i, -1, bg, buf1[i],
                                                 Reads(bg, acc.tex))),
                  tex |-> IF p.ntex > 0 THEN [acc.tex EXCEPT ![i][1] = stamp]
                                        ELSE acc.tex,
                  buf |-> buf2])
          ELSE RecordPasses(ps, md, gts, writeIdx, stamp, writers, i + 1,
                 [cmds |-> Append(cmds1, Command("draw", i, writeIdx, bg, buf1[i],
                                                 Reads(bg, acc.tex))),
                  tex |-> [acc.tex EXCEPT ![i][writeIdx + 1] = stamp],
                  buf |-> buf2])

\* the frame callback returns at once: nothing is armed again
frameNotCompiled ==
    /\ ~isCompiled
    /\ armed' = armed - 1
    /\ UNCHANGED <<frameCounter, tex, buf, frames>>
    /\ UNCHANGED uniformVars

\* a faulty variant: the abandoned frame still advances the frame counter
frameThrowsCounts(time, surfaceOk) ==
    /\ isCompiled
    /\ \/ \E i \in 1..Len(passes) : ~passes[i].pipelines
       \/ ~surfaceOk
    /\ StoreLayout(updateLayout(Layout, time))
    /\ armed' = armed - 1
    /\ frameCounter' = frameCounter + 1
    /\ UNCHANGED <<tex, buf, frames>>

\* the callback throws before queue.submit: setPipeline of a stage declared
\* after the last compile (pipelines[0] is undefined), or getCurrentTexture
frameThrows(time, surfaceOk) ==
    /\ isCompiled
    /\ \/ \E i \in 1..Len(passes) : ~passes[i].pipelines
       \/ ~surfaceOk
    /\ StoreLayout(updateLayout(Layout, time))
    /\ armed' = armed - 1
    /\ UNCHANGED <<frameCounter, tex, buf, frames>>

\* a faulty variant: the terminal stage is recorded first
frameSubmitsMainFirst(time, surfaceOk, writers) ==
    /\ isCompiled
    /\ \A i \in 1..Len(passes) : passes[i].pipelines
    /\ surfaceOk
    /\ StoreLayout(updateLayout(Layout, time))
    /\ LET writeIdx == WriteIdx(frameCounter)
           rec == RecordPasses(passes, mainDeps, globalTextures, writeIdx,
                               frameCounter, writers, 1,
                               [cmds |-> <<>>, tex |-> tex, buf |-> buf])
           mainBG == createBindGroup(passes, mainDeps, globalTextures,
                                     Len(passes) + 1, writeIdx)
       IN  /\ frames' = Append(frames,
                 [counter |-> frameCounter, writeIdx |-> writeIdx, writers |-> writers,
                  bufBefore |-> buf,
                  cmds |-> <<Command("draw", Len(passes) + 1, -1, mainBG, -1,
                                     Reads(mainBG, tex))>> \o rec.cmds])
           /\ tex' = rec.tex
           /\ buf' = rec.buf
    /\ frameCounter' = frameCounter + 1
    /\ armed' = armed

frameSubmits(time, surfaceOk, writers) ==
    /\ isCompiled
    /\ \A i \in 1..Len(passes) : passes[i].pipelines
    /\ surfaceOk
    /\ StoreLayout(updateLayout(Layout, time))
    /\ LET writeIdx == WriteIdx(frameCounter)
           rec == RecordPasses(passes, mainDeps, globalTextures, writeIdx,
                               frameCounter, writers, 1,
                               [cmds |-> <<>>, tex |-> tex, buf |-> buf])
           mainBG == createBindGroup(passes, mainDeps, globalTextures,
                                     Len(passes) + 1, writeIdx)
       IN  /\ frames' = Append(frames,
                 [counter |-> frameCounter, writeIdx |-> writeIdx, writers |-> writers,
                  bufBefore |-> buf,
                  cmds |-> Append(rec.cmds,
                             Command("draw", Len(passes) + 1, -1, mainBG, -1,
                                     Reads(mainBG, rec.tex)))])
           /\ tex' = rec.tex
           /\ buf' = rec.buf
    /\ frameCounter' = frameCounter + 1
    /\ armed' = armed

\* No sequencer and no audio plugin are attached: the time handed to
\* uniforms.update is (now - startTime) / 1000.
frame(time, surfaceOk, writers) ==
    /\ armed > 0
    /\ frameCounter < MaxFrames
    /\ frameCount < MaxFrames
    /\ \/ frameNotCompiled
       \/ frameThrows(time, surfaceOk)
       \/ frameSubmits(time, surfaceOk, writers)
    /\ UNCHANGED <<passes, globalTextures, mainPassShader, mainDeps, isCompiled,
                   passLayouts, mainPipeline, resolved>>
    /\ UNCHANGED deviceVars
    /\ UNCHANGED pluginVars


(***************************************************************************)
(* Initial state: TinyShade.create has returned (the constructor built the *)
(* UniformLayout of the canvas resolution), nothing is declared yet.       *)
(***************************************************************************)
InitEngine ==
    /\ passes = <<>>
    /\ globalTextures = <<>>
    /\ mainPassShader = {}
    /\ mainDeps = NoDeps
    /\ isCompiled = FALSE
    /\ passLayouts = <<>>
    /\ mainPipeline = FALSE
    /\ frameCounter = 0
    /\ armed = 0
    /\ tex = <<>>
    /\ buf = <<>>
    /\ frames = <<>>
    /\ resolved = <<>>
    /\ invalidPipelines = {}

(***************************************************************************)
(* TinyShadeBake.assembleShader and TinyShadeRunner.  A baked shader is    *)
(* the list of the bindings its header declares, which is what the         *)
(* runner's regular expression reads back from the text.                   *)
(***************************************************************************)
\* body.includes(name) for a stage name: true of every identifier spelt with
\* it (<name>, prev_<name>, <name>_data)
IncludesName(body, name) == \E id \in body : id.of = name /\ id.id # "global"

HeaderPush(acc, var) ==
    [b |-> acc.b + 1,
     decls |-> Append(acc.decls, [binding |-> acc.b, varName |-> var])]

RECURSIVE HeaderGlobals(_, _, _, _)
HeaderGlobals(acc, gts, body, k) ==
    IF k > Len(gts) THEN acc
    ELSE HeaderGlobals(IF Ident("global", gts[k]) \in body
                       THEN HeaderPush(acc, Ident("global", gts[k]))
                       ELSE acc,
                       gts, body, k + 1)

RECURSIVE HeaderPasses(_, _, _, _, _)
\* internalApp.passes.forEach of assembleShader; self is the index of
\* currentPass, Len(ps) + 1 for the terminal stage
HeaderPasses(acc, ps, body, self, k) ==
    IF k > Len(ps) THEN acc
    ELSE LET p == ps[k]
             next ==
               IF p.type = "compute"
               THEN IF self = k /\ Ident("outTex", "") \in body
                    THEN HeaderPush(acc, Ident("outTex", ""))
                    ELSE IF IncludesName(body, p.name)
                         THEN HeaderPush(acc, Ident("pass", p.name))
                         ELSE acc
               ELSE LET a1 == IF IncludesName(body, p.name)
                              THEN HeaderPush(acc, Ident("pass", p.name))
                              ELSE acc
                    IN  IF Ident("prev", p.name) \in body
                        THEN HeaderPush(a1, Ident("prev", p.name))
                        ELSE a1
         IN  HeaderPasses(next, ps, body, self, k + 1)

assembleShader(ps, gts, body, self) ==
    LET a1 == HeaderPush([b |-> 0, decls |-> <<>>], Ident("u", ""))
        a2 == HeaderGlobals(a1, gts, body, 1)
        a3 == IF Ident("samp", "") \in body THEN HeaderPush(a2, Ident("samp", ""))
                                           ELSE a2
        a4 == HeaderPasses(a3, ps, body, self, 1)
    IN  a4.decls

\* bakedPasses of collectGraphData: the declared stages, then "main"
collectGraphData ==
    [baked |-> TRUE,
     passes |->
       [k \in 1..(Len(passes) + 1) |->
          IF k <= Len(passes)
          THEN [name |-> passes[k].name, type |-> passes[k].type, isMain |-> FALSE,
                shader |-> assembleShader(passes, globalTextures, passes[k].shader, k)]
          ELSE [name |-> "main", type |-> "fragment", isMain |-> TRUE,
                shader |-> assembleShader(passes, globalTextures, mainPassShader, k)]]]

bake ==
    /\ isCompiled
    /\ ~graph.baked
    /\ graph' = collectGraphData
    /\ UNCHANGED <<runnerFrame, runnerFrames>>
    /\ UNCHANGED <<sequencerVars, timingVars>>
    /\ UNCHANGED engineVars
    /\ UNCHANGED uniformVars
    /\ UNCHANGED deviceVars

NoResource == Resource("none", "", 0, 0)

\* resources.get(var) in TinyShadeRunner.createBindGroup for stage g.passes[i]
RunnerResource(g, i, var, writeIdx) ==
    LET pass == g.passes[i]
        readIdx == 1 - writeIdx
        Named(n) == {k \in DOMAIN g.passes : ~g.passes[k].isMain /\ g.passes[k].name = n}
    IN  IF var = Ident("u", "") THEN Resource("uniformBuffer", "", 0, 0)
        ELSE IF var = Ident("samp", "") THEN Resource("sampler", "", 0, 0)
        ELSE IF var = Ident("outTex", "")
             THEN IF ~pass.isMain /\ pass.type = "compute"
                  THEN Resource("texture", "", i, 0)
                  ELSE NoResource
        ELSE IF var.id = "pass" /\ Named(var.of) # {}
             THEN LET k == CHOOSE k \in Named(var.of) : TRUE
                  IN  IF g.passes[k].type = "compute"
                      THEN Resource("texture", "", k, 0)
                      ELSE IF k = i THEN Resource("texture", "", k, readIdx)
                                    ELSE Resource("texture", "", k, writeIdx)
        ELSE IF var.id = "prev" /\ var.of = pass.name /\ ~pass.isMain
                /\ pass.type = "fragment"
             THEN Resource("texture", "", i, readIdx)
        ELSE NoResource

\* the entries of the runner's bind group: a declared binding without a
\* resource gets none
runnerCreateBindGroup(g, i, writeIdx) ==
    LET decls == g.passes[i].shader
        bound == SelectSeq(decls,
                   LAMBDA d : RunnerResource(g, i, d.varName, writeIdx) # NoResource)
    IN  [k \in 1..Len(bound) |->
           [binding |-> bound[k].binding,
            resource |-> RunnerResource(g, i, bound[k].varName, writeIdx)]]

\* one call of the render callback of TinyShadeRunner.run
render ==
    /\ graph.baked
    /\ runnerFrame < MaxFrames
    /\ runnerFrame' = runnerFrame + 1
    /\ LET writeIdx == runnerFrame' % 2
       IN  runnerFrames' = Append(runnerFrames,
             [writeIdx |-> writeIdx,
              cmds |-> [k \in 1..Len(graph.passes) |->
                          LET p == graph.passes[k]
                          IN  Command(IF p.type = "compute" THEN "dispatch" ELSE "draw",
                                      k,
                                      IF p.type = "compute" \/ p.isMain THEN -1
                                                                        ELSE writeIdx,
                                      runnerCreateBindGroup(graph, k, writeIdx),
                                      -1, <<>>)]])
    /\ UNCHANGED graph
    /\ UNCHANGED <<sequencerVars, timingVars>>
    /\ UNCHANGED engineVars
    /\ UNCHANGED uniformVars
    /\ UNCHANGED deviceVars

(***************************************************************************)
(* TSSequencer.update.  Time is counted in milliseconds and the playhead   *)
(* seconds * 1000 * 44.1 / (L * 2) is kept as the fraction                 *)
(* (ms * 441) / (20 * L); local time is its numerator over 20 * L.         *)
(***************************************************************************)
Sentinel == 255

\* a faulty variant: the loop walks past a sentinel row
RECURSIVE TraversePastSentinel(_, _, _, _, _)
TraversePastSentinel(tl, cursor, localTime, den, fuel) ==
    IF ~(/\ cursor < Len(tl) - 1
         /\ localTime >= tl[cursor + 1][1] * den)
    THEN [cursor |-> cursor, localTime |-> localTime, exits |-> TRUE]
    ELSE IF fuel = 0
         THEN [cursor |-> cursor, localTime |-> localTime, exits |-> FALSE]
         ELSE TraversePastSentinel(tl, cursor + 1, localTime - tl[cursor + 1][1] * den,
                                   den, fuel - 1)

\* the while loop of update; timeline[cursor] is tl[cursor + 1]
RECURSIVE Traverse(_, _, _, _, _)
Traverse(tl, cursor, localTime, den, fuel) ==
    IF ~(/\ cursor < Len(tl) - 1
         /\ tl[cursor + 1][1] < Sentinel
         /\ localTime >= tl[cursor + 1][1] * den)
    THEN [cursor |-> cursor, localTime |-> localTime, exits |-> TRUE]
    ELSE IF fuel = 0
         THEN [cursor |-> cursor, localTime |-> localTime, exits |-> FALSE]
         ELSE Traverse(tl, cursor + 1, localTime - tl[cursor + 1][1] * den,
                       den, fuel - 1)

\* progress is the fraction <<numerator, denominator>>
TSSequencerUpdate(tl, len, ms) ==
    LET den == 20 * len
        r == Traverse(tl, 0, ms * 441, den, Len(tl))
        activeScene == tl[r.cursor + 1]
        duration == activeScene[1]
    IN  [cursor |-> r.cursor,
         exits |-> r.exits,
         progress |-> <<Min(Max(0, r.localTime), duration * den), duration * den>>,
         flags |-> activeScene[2],
         sceneId |-> activeScene[3]]

sequencerUpdate(ms) ==
    /\ timeline # <<>>
    /\ seconds' = ms
    /\ state' = TSSequencerUpdate(timeline, L, ms)
    /\ UNCHANGED <<timeline, L>>
    /\ UNCHANGED timingVars
    /\ UNCHANGED runnerVars
    /\ UNCHANGED engineVars
    /\ UNCHANGED uniformVars
    /\ UNCHANGED deviceVars

(***************************************************************************)
(* WebGPUTiming.  resolve is an async method: the part up to               *)
(* `await mapAsync` runs when it is called, the rest when the mapping       *)
(* settles.                                                                *)
(***************************************************************************)
maxQueries == 20

reset ==
    /\ currentIndex' = 0
    /\ handed' = {}
    /\ UNCHANGED <<supportsTimeStampQuery, isMapping, mapState, awaiting, submits,
                   results>>
    /\ UNCHANGED sequencerVars
    /\ UNCHANGED runnerVars
    /\ UNCHANGED engineVars
    /\ UNCHANGED uniformVars
    /\ UNCHANGED deviceVars

\* returns null, and changes nothing, without the feature or past maxQueries
allocateIndices ==
    /\ IF ~supportsTimeStampQuery \/ currentIndex + 2 > maxQueries
       THEN UNCHANGED <<currentIndex, handed>>
       ELSE /\ handed' = handed \cup {<<currentIndex, currentIndex + 1>>}
            /\ currentIndex' = currentIndex + 2
    /\ UNCHANGED <<supportsTimeStampQuery, isMapping, mapState, awaiting, submits,
                   results>>
    /\ UNCHANGED sequencerVars
    /\ UNCHANGED runnerVars
    /\ UNCHANGED engineVars
    /\ UNCHANGED uniformVars
    /\ UNCHANGED deviceVars

\* resolve up to its await; passTimings is the set of pairs of the frame
resolve(passTimings) ==
    /\ IF \/ ~supportsTimeStampQuery
          \/ isMapping
          \/ Cardinality(passTimings) = 0
          \/ mapState # "unmapped"
       THEN UNCHANGED <<isMapping, mapState, awaiting, submits>>
       ELSE /\ isMapping' = TRUE
            /\ submits' = submits + 1
            /\ mapState' = "pending"
            /\ awaiting' = Append(awaiting, passTimings)
    /\ UNCHANGED <<supportsTimeStampQuery, currentIndex, results, handed>>
    /\ UNCHANGED sequencerVars
    /\ UNCHANGED runnerVars
    /\ UNCHANGED engineVars
    /\ UNCHANGED uniformVars
    /\ UNCHANGED deviceVars

\* a faulty variant: isMapping is reset after a successful read only
mapSettledNoFinally(ok) ==
    /\ awaiting # <<>>
    /\ awaiting' = Tail(awaiting)
    /\ mapState' = "unmapped"
    /\ results' = (IF ok THEN Head(awaiting) ELSE results)
    /\ isMapping' = (IF ok THEN FALSE ELSE isMapping)
    /\ UNCHANGED <<supportsTimeStampQuery, currentIndex, submits, handed>>
    /\ UNCHANGED sequencerVars
    /\ UNCHANGED runnerVars
    /\ UNCHANGED engineVars
    /\ UNCHANGED uniformVars
    /\ UNCHANGED deviceVars

\* resolve from its await on: the mapping is there (read, unmap, onResult) or
\* mapAsync has rejected (catch); finally in either case
mapSettled(ok) ==
    /\ awaiting # <<>>
    /\ awaiting' = Tail(awaiting)
    /\ mapState' = "unmapped"
    /\ results' = (IF ok THEN Head(awaiting) ELSE results)
    /\ isMapping' = FALSE
    /\ UNCHANGED <<supportsTimeStampQuery, currentIndex, submits, handed>>
    /\ UNCHANGED sequencerVars
    /\ UNCHANGED runnerVars
    /\ UNCHANGED engineVars
    /\ UNCHANGED uniformVars
    /\ UNCHANGED deviceVars

(***************************************************************************)
(* The initial state.                                                      *)
(***************************************************************************)
\* no sequencer is attached
InitSequencer ==
    /\ timeline = <<>>
    /\ L = 170000
    /\ seconds = -1
    /\ state = [cursor |-> 0, exits |-> TRUE, progress |-> <<0, 1>>,
                flags |-> 0, sceneId |-> 0]

\* a timer as its constructor leaves it
InitTiming(supported) ==
    /\ supportsTimeStampQuery = supported
    /\ currentIndex = 0
    /\ isMapping = FALSE
    /\ mapState = "unmapped"
    /\ awaiting = <<>>
    /\ submits = 0
    /\ results = {}
    /\ handed = {}

\* nothing is baked
InitRunner ==
    /\ graph = [baked |-> FALSE, passes |-> <<>>]
    /\ runnerFrame = 0
    /\ runnerFrames = <<>>

InitPlugins == InitSequencer /\ InitTiming(FALSE) /\ InitRunner

\* initWebGPU has run on a device with the default limits
InitDevice ==
    /\ limits = [x |-> 256, y |-> 256]
    /\ device = TRUE
    /\ workgroupSize = getWorkgroupSize(limits)

InitLayout(initialResolution) ==
    LET u == NewUniformLayout(initialResolution)
    IN  /\ entries = u.entries
        /\ currentOffset = u.currentOffset
        /\ isBuilt = u.isBuilt
        /\ floatView = u.floatView
        /\ setters = u.setters
        /\ dynamicUpdates = u.dynamicUpdates
        /\ frameCount = u.frameCount
        /\ currentTime = u.currentTime

\* [canvas.width * dpr, canvas.height * dpr, dpr]
CanvasResolution == <<800, 600, 1>>

Init == InitEngine /\ InitDevice /\ InitPlugins /\ InitLayout(CanvasResolution)

(***************************************************************************)
(* The frame loop: a client declares stages, declares the terminal stage,  *)
(* starts the loop, and the host runs the armed callbacks.                 *)
(***************************************************************************)
LoopDeps == {NoDeps, Deps(<<>>), Deps(<<"b", "a">>)}
BufferSizes == {0, 4}

NextName == PassNames[Len(passes) + 1]

\* the client keeps to the declaration chain: stages first, the terminal
\* stage once and last
DeclareCompute ==
    \E deps \in LoopDeps :
        /\ ~isCompiled /\ Len(passes) < MaxPasses
        /\ addCompute(NextName, WgslPlain, 4, deps)

DeclareAtomic ==
    \E deps \in LoopDeps :
        /\ ~isCompiled /\ Len(passes) < MaxPasses
        /\ addAtomicCompute(NextName, WgslPlain, 4, deps)

DeclarePass ==
    \E deps \in LoopDeps :
        /\ ~isCompiled /\ Len(passes) < MaxPasses
        /\ addPass(NextName, WgslPlain, deps)

DeclareMain == \E deps \in LoopDeps : ~isCompiled /\ main(WgslPlain, deps)

\* the client starts the loop when no callback is pending
StartLoop == armed = 0 /\ run

\* the host's clock, in seconds since startTime: one second per callback run
Clock == frameCount + 1

\* the host runs one armed callback; the presentation surface is there or
\* not, and the shaders of this frame store to the buffers bound to them or not
Frame ==
    \E surfaceOk \in BOOLEAN, stores \in BOOLEAN :
        frame(Clock, surfaceOk, IF stores THEN 1..Len(passes) ELSE {})

Next ==
    \/ DeclareCompute
    \/ DeclareAtomic
    \/ DeclarePass
    \/ DeclareMain
    \/ StartLoop
    \/ Frame

Spec == Init /\ [][Next]_vars


(***************************************************************************)
(* The dependency graph: a client declares stages of every kind with the   *)
(* dependency argument absent, empty or naming stages, adds a global       *)
(* texture, and declares the terminal stage, which compiles the graph.     *)
(***************************************************************************)
GraphDeps == {NoDeps, Deps(<<>>), Deps(<<"c", "a">>)}

GraphCompute ==
    \E size \in BufferSizes, deps \in GraphDeps :
        /\ ~isCompiled /\ Len(passes) < MaxStages
        /\ addCompute(NextName, WgslPlain, size, deps)

GraphAtomic ==
    \E deps \in GraphDeps :
        /\ ~isCompiled /\ Len(passes) < MaxStages
        /\ addAtomicCompute(NextName, WgslPlain, 4, deps)

GraphPass ==
    \E deps \in GraphDeps :
        /\ ~isCompiled /\ Len(passes) < MaxStages
        /\ addPass(NextName, WgslPlain, deps)

GraphTexture == ~isCompiled /\ globalTextures = <<>> /\ addTexture("tex0")

GraphMain == \E deps \in GraphDeps : ~isCompiled /\ main(WgslPlain, deps)

NextGraph ==
    \/ GraphCompute
    \/ GraphAtomic
    \/ GraphPass
    \/ GraphTexture
    \/ GraphMain

SpecGraph == Init /\ [][NextGraph]_vars

(***************************************************************************)
(* Layout synthesis: stages of every kind whose source text references the *)
(* graph's resources or none of them, any global textures, no dependency   *)
(* argument.                                                               *)
(***************************************************************************)
Sources == {WgslEmpty, WgslSampling}

SourceCompute ==
    \E size \in BufferSizes, wgsl \in Sources :
        /\ ~isCompiled /\ Len(passes) < MaxStages
        /\ addCompute(NextName, wgsl, size, NoDeps)

SourceAtomic ==
    \E wgsl \in Sources :
        /\ ~isCompiled /\ Len(passes) < MaxStages
        /\ addAtomicCompute(NextName, wgsl, 4, NoDeps)

SourcePass ==
    \E wgsl \in Sources :
        /\ ~isCompiled /\ Len(passes) < MaxStages
        /\ addPass(NextName, wgsl, NoDeps)

SourceTexture == \E name \in TextureNames : ~isCompiled /\ addTexture(name)

SourceMain == \E wgsl \in Sources : ~isCompiled /\ main(wgsl, NoDeps)

NextLayout ==
    \/ SourceCompute
    \/ SourceAtomic
    \/ SourcePass
    \/ SourceTexture
    \/ SourceMain

SpecLayout == Init /\ [][NextLayout]_vars

(***************************************************************************)
(* The uniform buffer: a client registers uniforms, reads the buffer, and  *)
(* the frame loop updates it.  The integer 2^24 + 1 stands for the numbers *)
(* a Float32Array element cannot hold.                                     *)
(***************************************************************************)
InitialResolutions == {<<800, 600>>, <<800, 600, 1>>}
UserNames == {"speed", "jitter"}
UserValues ==
    {Const(Num(2)), Const(Num(Pow2(F32Bits) + 1)), Const(Vec(<<1, 2, 3>>)),
     Const(Vec(<<1, 2, 3, 4>>)), Const(Vec(<<1>>)), Fn("jitter"), Fn("beat")}
Times == {0, 3, Pow2(F32Bits) + 1}
SceneStates == {<<0, 0, 0>>, <<1, 5, 2>>}

InitUniform == InitEngine /\ InitDevice /\ InitPlugins /\ \E r \in InitialResolutions : InitLayout(r)

RegisterUniform ==
    \E name \in UserNames, value \in UserValues :
        /\ Len(entries) < Len(NewUniformLayout(CanvasResolution).entries) + MaxUniforms
        /\ addUniform(name, value)

ReadByteSize == byteSize

Update == \E time \in Times : frameCount < MaxUpdates /\ update(time)

UpdateSequencer == \E sc \in SceneStates : updateSequencer(sc[1], sc[2], sc[3])

NextUniform ==
    \/ RegisterUniform
    \/ ReadByteSize
    \/ Update
    \/ UpdateSequencer

SpecUniform == InitUniform /\ [][NextUniform]_vars

(***************************************************************************)
(* Device initialisation: the constructor has run, initWebGPU queries the   *)
(* adapter's limits and computes the workgroup size.                       *)
(***************************************************************************)
InitWorkgroup ==
    /\ InitEngine
    /\ InitPlugins
    /\ InitLayout(CanvasResolution)
    /\ limits \in [x : 1..MaxLimit, y : 1..MaxLimit]
    /\ device = FALSE
    /\ workgroupSize = [x |-> 8, y |-> 8, z |-> 1]

QueryDevice == initWebGPU

NextWorkgroup == QueryDevice

SpecWorkgroup == InitWorkgroup /\ [][NextWorkgroup]_vars

(***************************************************************************)
(* The sequencer: a timeline of up to MaxScenes rows with positive         *)
(* durations, some of them sentinels, is played at moments in any order.   *)
(***************************************************************************)
Durations == {1, 2, Sentinel, 300}
Timelines ==
    UNION {{[k \in 1..n |-> <<d[k], k - 1, 10 + k>>] : d \in [1..n -> Durations]}
             : n \in 1..MaxScenes}
Lengths == {441, 882}
Moments == {0, 10, 20, 30, 50, 70, 100, 130, 6000}

InitTimeline ==
    /\ InitEngine /\ InitDevice /\ InitLayout(CanvasResolution)
    /\ InitTiming(FALSE)
    /\ InitRunner
    /\ timeline \in Timelines
    /\ L \in Lengths
    /\ seconds = -1
    /\ state = [cursor |-> 0, exits |-> TRUE, progress |-> <<0, 1>>,
                flags |-> 0, sceneId |-> 0]

Play == \E ms \in Moments : sequencerUpdate(ms)

NextSequencer == Play

SpecSequencer == InitTimeline /\ [][NextSequencer]_vars

(***************************************************************************)
(* The timer in a running loop: every frame resets it, asks for a pair of  *)
(* indices per stage and calls resolve, while an earlier resolve may still *)
(* wait for its mapping.                                                   *)
(***************************************************************************)
InitTimer ==
    /\ InitEngine /\ InitDevice /\ InitLayout(CanvasResolution)
    /\ InitSequencer
    /\ InitRunner
    /\ \E supported \in BOOLEAN : InitTiming(supported)

TimerReset == reset

TimerAllocate == allocateIndices

\* the frame hands resolve the pairs it was given since its reset
TimerResolve == submits < MaxResolves /\ resolve(handed)

MapSettles == \E ok \in BOOLEAN : mapSettled(ok)

NextTimer ==
    \/ TimerReset
    \/ TimerAllocate
    \/ TimerResolve
    \/ MapSettles

SpecTimer == InitTimer /\ [][NextTimer]_vars

(***************************************************************************)
(* Bake and replay: a client declares stages whose source samples the     *)
(* previous frame of stage a and a global texture, compiles the graph,     *)
(* bakes it, and the runner replays it.                                    *)
(***************************************************************************)
WgslFeedback ==
    {Ident("u", ""), Ident("samp", ""), Ident("prev", "a"), Ident("global", "tex0")}
RunnerSources == {WgslPlain, WgslFeedback}

RunnerCompute ==
    /\ ~isCompiled /\ Len(passes) < MaxPasses
    /\ addCompute(NextName, {Ident("u", ""), Ident("outTex", "")}, 0, NoDeps)

RunnerPass ==
    \E wgsl \in RunnerSources :
        /\ ~isCompiled /\ Len(passes) < MaxPasses
        /\ addPass(NextName, wgsl, NoDeps)

RunnerTexture == ~isCompiled /\ globalTextures = <<>> /\ addTexture("tex0")

RunnerMain == \E wgsl \in RunnerSources : ~isCompiled /\ main(wgsl, NoDeps)

Bake == bake

Render == render

NextRunner ==
    \/ RunnerCompute
    \/ RunnerPass
    \/ RunnerTexture
    \/ RunnerMain
    \/ Bake
    \/ Render

SpecRunner == Init /\ [][NextRunner]_vars

(***************************************************************************)
(* A client that does not keep to the declaration chain: it declares      *)
(* stages and the terminal stage in any order and any number of times,     *)
(* on a device that may fail to compile a stage, around a running loop.    *)
(***************************************************************************)
ClientDeps == {NoDeps, Deps(<<>>)}

Faults ==
    {NoFault} \cup {Throws(k) : k \in 1..(Len(passes) + 1)}
              \cup {Invalid(k) : k \in 1..(Len(passes) + 1)}

ClientCompute ==
    /\ Len(passes) < MaxPasses
    /\ addCompute(NextName, WgslPlain, 0, NoDeps)

ClientPass ==
    /\ Len(passes) < MaxPasses
    /\ addPass(NextName, WgslPlain, NoDeps)

ClientMain == \E deps \in ClientDeps, fault \in Faults : mainOn(WgslPlain, deps, fault)

ClientRun == armed = 0 /\ run

ClientFrame == \E surfaceOk \in BOOLEAN : frame(Clock, surfaceOk, {})

NextClient ==
    \/ ClientCompute
    \/ ClientPass
    \/ ClientMain
    \/ ClientRun
    \/ ClientFrame

SpecClient == Init /\ [][NextClient]_vars

(***************************************************************************)
(* Properties of the frame loop.                                           *)
(***************************************************************************)
FragmentStages == {i \in 1..Len(passes) : passes[i].type = "fragment"}
AtomicStages == {i \in 1..Len(passes) : passes[i].isAtomic}

\* the dispatch or draw of stage i in the f-th submitted frame
CmdOf(f, i) ==
    CHOOSE c \in Range(frames[f].cmds) : c.stage = i /\ c.op # "clearBuffer"

\* C1: every submitted frame advances frameCounter by one, a fragment stage
\* renders into slot frameCounter mod 2 of its pair, so its write slot differs
\* between consecutive submitted frames and is the same two frames apart.
C1_WriteSlotAlternates ==
    /\ Len(frames) = frameCounter
    /\ \A f \in 1..Len(frames) :
         /\ frames[f].counter = f - 1
         /\ \A i \in FragmentStages :
              /\ CmdOf(f, i).op = "draw"
              /\ CmdOf(f, i).target = frames[f].counter % 2
              /\ f + 1 <= Len(frames) => CmdOf(f + 1, i).target # CmdOf(f, i).target
              /\ f + 2 <= Len(frames) => CmdOf(f + 2, i).target = CmdOf(f, i).target

C1_Witness == Len(frames) >= 3 /\ FragmentStages # {}

\* the entry of stage i's own layout that is named prev_<name of i>
PrevEntry(i) ==
    CHOOSE k \in DOMAIN passLayouts[i] :
        passLayouts[i][k].var = Ident("prev", passes[i].name)

\* C2: in the frame after one in which fragment stage X rendered, the entry
\* prev_X of X's own bind group is the slot X rendered into, and it still
\* holds what X rendered there: nothing has written it in between.
C2_PrevIsPreviousFrame ==
    \A f \in 1..(Len(frames) - 1) :
        \A i \in FragmentStages :
            LET k == PrevEntry(i)
                next == CmdOf(f + 1, i)
            IN  /\ next.bindGroup[k].resource
                     = Resource("texture", "", i, CmdOf(f, i).target)
                /\ next.reads[k] = frames[f].counter

C2_Witness ==
    /\ Len(frames) >= 3
    /\ \E i \in FragmentStages, j \in 1..Len(passes) : j # i /\ i \in Range(resolved[j])

Stages == 1..(Len(passes) + 1)

DepsOf(i) == CurrentPass(passes, mainDeps, i).dependencies

\* what stage i resolved to, without stage i itself
Others(i) == SelectSeq(resolved[i], LAMBDA k : k # i)

Increasing(seq) == \A x, y \in DOMAIN seq : x < y => seq[x] < seq[y]

\* C3: a stage declared without a dependency argument resolves to exactly
\* the stages declared strictly before it, in declaration order, and to no
\* stage declared after it.
C3_SeesEarlierStagesOnly ==
    isCompiled =>
        \A i \in Stages :
            ~DepsOf(i).present => Others(i) = [k \in 1..(i - 1) |-> k]

\* C4: a stage declared with a list of names resolves to exactly the declared
\* stages the list names, in declaration order whatever the order of the
\* list, and to no stage the list does not name.
C4_NamedStagesInDeclarationOrder ==
    isCompiled =>
        \A i \in Stages :
            DepsOf(i).present =>
                /\ Range(Others(i))
                     = {k \in 1..Len(passes) :
                          passes[k].name \in Range(DepsOf(i).list)} \ {i}
                /\ Increasing(Others(i))

C4_Witness ==
    /\ isCompiled
    /\ Len(passes) = 3
    /\ mainDeps = Deps(<<"c", "a">>)
    /\ resolved[4] = <<1, 3>>
    /\ passes[2].dependencies = Deps(<<"c", "a">>)
    /\ resolved[2] = <<1, 3, 2>>

\* the resources of stage i itself
OwnVars(i) ==
    IF i > Len(passes) THEN {}
    ELSE {Ident("outTex", ""), Ident("data", ""),
          Ident("pass", passes[i].name), Ident("prev", passes[i].name)}

GlobalVars == {Ident("global", n) : n \in Range(globalTextures)}

\* C5: a stage declared with an empty list resolves to no other stage; its
\* layout, and its bind group for either write slot, hold the uniform
\* buffer, the global textures, the sampler and its own resources only.
C5_EmptyListIsolates ==
    isCompiled =>
        \A i \in Stages :
            DepsOf(i) = Deps(<<>>) =>
                /\ Others(i) = <<>>
                /\ \A e \in Range(passLayouts[i]) :
                       e.var \in {Ident("u", ""), Ident("samp", "")}
                                   \cup GlobalVars \cup OwnVars(i)
                /\ \A writeIdx \in {0, 1} :
                       \A e \in Range(createBindGroup(passes, mainDeps,
                                                      globalTextures, i, writeIdx)) :
                           \/ e.resource.kind \in {"uniformBuffer", "globalTexture",
                                                   "sampler"}
                           \/ e.resource.pass = i /\ i <= Len(passes)

C5_Witness ==
    /\ isCompiled
    /\ Len(passes) = 3
    /\ globalTextures # <<>>
    /\ mainDeps = Deps(<<>>)
    /\ passes[2].dependencies = Deps(<<>>)
    /\ passes[2].type = "fragment"
    /\ Len(passLayouts[2]) = 5
    /\ Len(passLayouts[4]) = 3

(***************************************************************************)
(* Properties of layout synthesis.                                         *)
(***************************************************************************)
\* C6: the binding numbers of every compiled layout are 0, 1, ..., n-1 in
\* order, and binding 0 is the uniform buffer.
C6_BindingsContiguous ==
    isCompiled =>
        \A i \in Stages :
            /\ \A k \in DOMAIN passLayouts[i] : passLayouts[i][k].binding = k - 1
            /\ passLayouts[i][1].kind = "uniform"
            /\ passLayouts[i][1].var = Ident("u", "")

C6_Witness ==
    /\ isCompiled
    /\ Len(passes) = 3
    /\ Len(globalTextures) = 2
    /\ passes[1].isAtomic
    /\ passes[2].type = "compute" /\ passes[2].ntex = 1 /\ ~passes[2].storageBuffer
    /\ passes[3].type = "fragment"

\* the identifiers of the graph's resources as stage i may name them
KnownVars(i) ==
    {Ident("u", ""), Ident("samp", "")} \cup GlobalVars
      \cup UNION {IF k = i
                  THEN (IF passes[k].type = "fragment"
                        THEN {Ident("pass", passes[k].name),
                              Ident("prev", passes[k].name)}
                        ELSE {})
                       \cup (IF passes[k].type = "compute" /\ passes[k].ntex > 0
                             THEN {Ident("outTex", "")} ELSE {})
                       \cup (IF passes[k].storageBuffer
                             THEN {Ident("data", "")} ELSE {})
                  ELSE (IF passes[k].ntex > 0
                        THEN {Ident("pass", passes[k].name)} ELSE {})
                       \cup (IF passes[k].type = "fragment"
                             THEN {Ident("prev", passes[k].name)} ELSE {})
                       \cup (IF passes[k].storageBuffer
                             THEN {Ident("pass_data", passes[k].name)} ELSE {})
                  : k \in Range(resolved[i])}

ShaderOf(i) == IF i > Len(passes) THEN mainPassShader ELSE passes[i].shader

BoundVars(i) == {e.var : e \in Range(passLayouts[i])}

AlignOf(type) ==
    CASE type = "f32" -> 4
      [] type = "vec2f" -> 8
      [] type = "vec3f" -> 16
      [] type = "vec4f" -> 16

\* C8: every entry's offset is a multiple of the alignment of its type
\* (4, 8, 16, 16 for scalar, 2, 3 and 4 components), and the built buffer's
\* byte length is a multiple of 16 that holds every entry.
C8_OffsetsAligned ==
    /\ \A k \in DOMAIN entries :
         /\ entries[k].align = AlignOf(entries[k].type)
         /\ entries[k].offset % entries[k].align = 0
    /\ isBuilt =>
         /\ (4 * Len(floatView)) % 16 = 0
         /\ 4 * Len(floatView) >= currentOffset

\* padding before an entry and at the end of the buffer
C8_Witness ==
    /\ isBuilt
    /\ 4 * Len(floatView) > currentOffset
    /\ \E k \in DOMAIN entries :
         /\ k > 1
         /\ entries[k].type = "vec3f"
         /\ entries[k].offset > entries[k - 1].offset + entries[k - 1].size

\* the entries a client registered, and the reserved time entry
UserEntries == {k \in DOMAIN entries : entries[k].name \in UserNames}
TimeEntry == CHOOSE k \in DOMAIN entries : entries[k].name = "time"

\* what entry k stands for at the last update
ValueAt(k) ==
    IF k = TimeEntry THEN <<currentTime>>
    ELSE IF entries[k].value.fn # ""
         THEN UniformFn(entries[k].value.fn, currentTime, frameCount).v
         ELSE entries[k].value.c.v

Stored(k) ==
    [j \in 1..Len(ValueAt(k)) |-> floatView[entries[k].offset \div 4 + j]]

\* C9 as stated: after update(t) the buffer holds the very numbers: the
\* function's value for t, t itself, the registered constant.
C9_HoldsExactValues ==
    frameCount > 0 =>
        \A k \in UserEntries \cup {TimeEntry} : Stored(k) = ValueAt(k)

\* C9: after update(t) the buffer holds, at each registered function entry,
\* the value of the function for t and the frame count, at the time entry t,
\* at each registered constant entry its constant, each rounded to the
\* nearest number a 32-bit float holds.
C9_HoldsRoundedValues ==
    frameCount > 0 =>
        \A k \in UserEntries \cup {TimeEntry} :
            Stored(k) = [j \in 1..Len(ValueAt(k)) |-> Fround(ValueAt(k)[j])]

C9_Witness ==
    /\ frameCount = 2
    /\ currentTime = 3
    /\ \E k, m \in UserEntries :
         /\ entries[k].value = Const(Num(Pow2(F32Bits) + 1))
         /\ Stored(k) = <<Pow2(F32Bits)>>
         /\ entries[m].value = Fn("beat")
         /\ Stored(m) = <<3, 2>>


(***************************************************************************)
(* Properties of the order and the bindings within a frame.                *)
(***************************************************************************)
\* the dispatches and draws of the f-th submitted frame, in recorded order
Work(f) == SelectSeq(frames[f].cmds, LAMBDA c : c.op # "clearBuffer")

\* C11: every submitted frame records the declared stages in declaration
\* order, each once, then the terminal stage, and is submitted once, before
\* frameCounter moves on.
C11_DeclarationOrder ==
    /\ Len(frames) = frameCounter
    /\ \A f \in 1..Len(frames) :
         /\ frames[f].counter = f - 1
         /\ [k \in 1..Len(Work(f)) |-> Work(f)[k].stage]
              = [k \in 1..(Len(passes) + 1) |-> k]
         /\ Work(f)[Len(passes) + 1].op = "draw"

C11_Witness ==
    /\ Len(frames) >= 2
    /\ Len(passes) = 2
    /\ AtomicStages # {}
    /\ FragmentStages # {}

\* C12 as stated: whatever stage a bind group binds besides the stage's own
\* has been recorded earlier in the same frame.
C12_VisibleStagesRecordedEarlier ==
    \A f \in 1..Len(frames) :
        \A k \in DOMAIN Work(f) :
            \A e \in Range(Work(f)[k].bindGroup) :
                (e.resource.kind \in {"texture", "buffer"}
                   /\ e.resource.pass # Work(f)[k].stage)
                  => e.resource.pass < Work(f)[k].stage

\* the entry of stage s's layout that carries the identifier var
EntryOf(s, var) == CHOOSE k \in DOMAIN passLayouts[s] : passLayouts[s][k].var = var

\* C13: in every submitted frame, a stage that sees a fragment stage X other
\* than itself has X bound to the slot X renders into in that frame
\* (frameCounter mod 2) and prev_X to X's other slot; a visible compute stage
\* with an image has its single image bound.
C13_CurrentAndPreviousSlots ==
    \A f \in 1..Len(frames) :
        \A k \in DOMAIN Work(f) :
            LET s == Work(f)[k].stage
                bg == Work(f)[k].bindGroup
                parity == frames[f].counter % 2
            IN  \A x \in Range(resolved[s]) \ {s} :
                    IF passes[x].type = "fragment"
                    THEN /\ bg[EntryOf(s, Ident("pass", passes[x].name))].resource
                              = Resource("texture", "", x, parity)
                         /\ bg[EntryOf(s, Ident("prev", passes[x].name))].resource
                              = Resource("texture", "", x, 1 - parity)
                         /\ CmdOf(f, x).target = parity
                    ELSE passes[x].ntex > 0 =>
                           bg[EntryOf(s, Ident("pass", passes[x].name))].resource
                             = Resource("texture", "", x, 0)

\* the terminal stage and a declared stage both see a fragment stage, and a
\* stage sees a compute stage, over both parities
C13_Witness ==
    /\ Len(frames) >= 2
    /\ Len(passes) = 2
    /\ \E x \in FragmentStages :
         /\ x \in Range(resolved[Len(passes) + 1])
         /\ \E s \in 1..Len(passes) : s # x /\ x \in Range(resolved[s])
    /\ \E x \in 1..Len(passes) :
         /\ passes[x].type = "compute" /\ passes[x].ntex > 0
         /\ x \in Range(resolved[Len(passes) + 1])

(***************************************************************************)
(* Properties of the loop's scheduling.                                    *)
(***************************************************************************)
\* C17 as stated: a callback that runs before the graph is compiled arms the
\* next one, so the number of pending callbacks never drops.
C17_CallbackBeforeCompileRearms == [][~isCompiled => armed' >= armed]_vars

\* C18 as stated: once a frame has failed after the uniforms were updated
\* (more updates than submitted frames), a next callback is still armed.
C18_FailedFrameRearms == frameCount > frameCounter => armed > 0


(***************************************************************************)
(* Properties of the declaration calls.                                    *)
(***************************************************************************)
\* C14 as stated: a stage whose list names a stage not declared before it is
\* refused, so every stage of the graph, and the terminal stage once it is
\* compiled, names stages declared before it only.
C14_NamesDeclaredStagesOnly ==
    /\ \A i \in 1..Len(passes) :
         \A n \in Range(passes[i].dependencies.list) :
             \E k \in 1..(i - 1) : passes[k].name = n
    /\ isCompiled =>
         \A n \in Range(mainDeps.list) : \E k \in 1..Len(passes) : passes[k].name = n


(***************************************************************************)
(* Properties of the workgroup size.                                       *)
(***************************************************************************)
IsPowerOf2(v) == \E k \in 0..4 : v = 2 ^ k

\* the size w computed for an axis of limit n
BestFor(n, w) ==
    /\ IsPowerOf2(w)
    /\ w <= n
    /\ w <= 16
    /\ \A v \in 1..16 : (IsPowerOf2(v) /\ v <= n) => v <= w
    /\ WhileDouble(n, 1, n).exits

\* C20: once initWebGPU has run, the X and the Y size are each the largest
\* power of two that is at most the axis limit and at most 16, the Z size is
\* 1, and the doubling loop has left within n iterations.
C20_WorkgroupSize ==
    device =>
        /\ BestFor(limits.x, workgroupSize.x)
        /\ BestFor(limits.y, workgroupSize.y)
        /\ workgroupSize.z = 1

\* one axis capped at 16, the other rounded down to a power of two
C20_Witness ==
    /\ device
    /\ limits = [x |-> MaxLimit, y |-> 5]
    /\ workgroupSize = [x |-> 16, y |-> 4, z |-> 1]


(***************************************************************************)
(* Properties of a graph that has been compiled.                           *)
(***************************************************************************)
\* C15 as stated: once the terminal stage is declared, a further call of
\* main is refused and leaves the compiled layouts, the terminal stage's
\* source and its dependencies as they are.
C15_SecondMainRefused ==
    [][isCompiled => /\ passLayouts' = passLayouts
                     /\ mainDeps' = mainDeps
                     /\ mainPassShader' = mainPassShader]_vars

\* C16 as stated: once the terminal stage is declared, no declare call
\* changes the list of stages the frame loop runs through.
C16_GraphImmutable ==
    [][isCompiled =>
         [i \in DOMAIN passes' |-> passes'[i].name]
           = [i \in DOMAIN passes |-> passes[i].name]]_vars

\* C19 as stated: when the device fails to compile a stage, the graph is not
\* marked compiled and no frame is submitted for it.
C19_FailedCompileStopsGraph ==
    invalidPipelines # {} => ~isCompiled /\ frames = <<>>


(***************************************************************************)
(* Properties of the list of uniform entries.                              *)
(***************************************************************************)
\* C21: no step removes, moves or alters an entry already in the list
\* (name, type, size, alignment, offset and position stay), and once the
\* layout is built no step changes the list, the running offset or the
\* buffer's length; addUniform on a built layout also leaves the buffer's
\* content as it is.
C21_EntriesAppendOnly ==
    [][/\ Len(entries') >= Len(entries)
       /\ \A k \in DOMAIN entries : entries'[k] = entries[k]
       /\ isBuilt =>
            /\ isBuilt'
            /\ entries' = entries
            /\ currentOffset' = currentOffset
            /\ Len(floatView') = Len(floatView)
            /\ RegisterUniform => floatView' = floatView]_vars

\* a built layout with a client's entry in it and room for a further call
C21_Witness ==
    /\ isBuilt
    /\ UserEntries # {}
    /\ ENABLED RegisterUniform


(***************************************************************************)
(* Properties of the frame counter and the two slots of a fragment stage.  *)
(***************************************************************************)
\* C22: frameCounter counts the submitted frames and nothing else: it equals
\* the number of frames submitted so far, the k-th submitted frame was
\* recorded under counter k - 1, and so a callback that returns early or
\* fails before the submission leaves it as it is.
C22_CounterCountsSubmittedFrames ==
    /\ frameCounter = Len(frames)
    /\ \A k \in DOMAIN frames :
         /\ frames[k].counter = k - 1
         /\ frames[k].writeIdx = (k - 1) % 2

\* submitted frames, callbacks that failed after uniforms.update, and a loop
\* that has ended on a failure
C22_Witness ==
    /\ frameCounter >= 2
    /\ frameCount > frameCounter
    /\ armed = 0


\* the textures of stage i's pair bound in bind group bg
OwnSlotsBound(bg, i) ==
    {bg[k].resource.slot : k \in {j \in DOMAIN bg : /\ bg[j].resource.kind = "texture"
                                                   /\ bg[j].resource.pass = i}}

\* C23: in every submitted frame a fragment stage X is drawn once, into one
\* slot of its pair; the entry prev_X of X's own bind group is the other
\* slot, and no entry of X's own bind group is the slot X renders into.
C23_WriteTargetNotBound ==
    \A f \in 1..Len(frames) :
        \A i \in FragmentStages :
            LET c == CmdOf(f, i)
            IN  /\ Cardinality({k \in DOMAIN frames[f].cmds :
                        /\ frames[f].cmds[k].op = "draw"
                        /\ frames[f].cmds[k].stage = i}) = 1
                /\ c.target \in {0, 1}
                /\ c.bindGroup[PrevEntry(i)].resource
                     = Resource("texture", "", i, 1 - c.target)
                /\ c.target \notin OwnSlotsBound(c.bindGroup, i)

\* both parities, and a fragment stage whose write slot another fragment
\* stage binds in the same frame
C23_Witness ==
    /\ Len(frames) >= 2
    /\ \E i, j \in FragmentStages :
         /\ i # j
         /\ CmdOf(1, i).target \in OwnSlotsBound(CmdOf(1, j).bindGroup, i)


(***************************************************************************)
(* Properties of the order and the kinds of the entries of a layout.       *)
(***************************************************************************)
\* C24 as stated: every layout starts with the uniform buffer, the global
\* textures in declaration order and the sampler, and after them the stage's
\* own entries come last: no entry of another stage follows an own entry.
C24_OwnEntriesLast ==
    isCompiled =>
        \A i \in Stages :
            LET lay == passLayouts[i]
                g == Len(globalTextures)
            IN  /\ Len(lay) >= g + 2
                /\ lay[1].var = Ident("u", "")
                /\ \A k \in 1..g : lay[1 + k].var = Ident("global", globalTextures[k])
                /\ lay[g + 2].var = Ident("samp", "")
                /\ \A j, k \in (g + 3)..Len(lay) :
                       (lay[j].var \in OwnVars(i) /\ lay[k].var \notin OwnVars(i)) => k < j


ComputeStages == {i \in 1..Len(passes) : passes[i].type = "compute"}

\* the entries of bind group bg that are the image of stage c
ImageEntries(bg, c) ==
    {k \in DOMAIN bg : bg[k].resource.kind = "texture" /\ bg[k].resource.pass = c}

\* C25: a compute stage has one image, or none if it is atomic; no layout of
\* any stage has an entry prev_<name> for it; every bind group binds its
\* image at index 0 whatever the write slot of the frame; and in its own
\* layout the image is the write-only entry outTex and nothing else.
C25_ComputeHasNoFeedbackView ==
    isCompiled =>
        \A c \in ComputeStages :
            /\ passes[c].ntex = (IF passes[c].isAtomic THEN 0 ELSE 1)
            /\ \A i \in Stages :
                 /\ \A e \in Range(passLayouts[i]) :
                        e.var # Ident("prev", passes[c].name)
                 /\ LET bg0 == createBindGroup(passes, mainDeps, globalTextures, i, 0)
                        bg1 == createBindGroup(passes, mainDeps, globalTextures, i, 1)
                    IN  /\ ImageEntries(bg0, c) = ImageEntries(bg1, c)
                        /\ Cardinality(ImageEntries(bg0, c)) <= 1
                        /\ \A k \in ImageEntries(bg0, c) :
                               /\ bg0[k].resource.slot = 0
                               /\ bg1[k].resource.slot = 0
            /\ \A e \in Range(passLayouts[c]) :
                   /\ e.var # Ident("pass", passes[c].name)
                   /\ e.kind = "storageTexture" <=> e.var = Ident("outTex", "")
            /\ Cardinality({k \in DOMAIN passLayouts[c] :
                   passLayouts[c][k].var = Ident("outTex", "")}) = passes[c].ntex

\* a compute stage with an image that another stage sees, next to an atomic
\* stage and a fragment stage
C25_Witness ==
    /\ isCompiled
    /\ \E c, a \in ComputeStages :
         /\ passes[c].ntex = 1
         /\ passes[a].isAtomic
         /\ \E i \in 1..Len(passes) :
              /\ i # c
              /\ c \in Range(resolved[i])
              /\ passes[i].type = "fragment"


\* what a layout entry asks for, and what a bound resource is
LayoutKind(e) ==
    CASE e.kind = "uniform" -> "uniform buffer"
      [] e.kind \in {"texture", "storageTexture"} -> "texture"
      [] e.kind = "sampler" -> "sampler"
      [] e.kind = "storage" -> "storage buffer"

ResourceKind(r) ==
    CASE r.kind = "uniformBuffer" -> "uniform buffer"
      [] r.kind \in {"texture", "globalTexture"} -> "texture"
      [] r.kind = "sampler" -> "sampler"
      [] r.kind = "buffer" -> "storage buffer"

\* C27: for the graph as compiled, for every stage (the terminal stage too)
\* and either write slot, the bind group the frame loop builds has as many
\* entries as the stage's layout, with the same binding numbers and, binding
\* by binding, the kind of resource the layout asks for.
C27_BindGroupMatchesLayout ==
    isCompiled =>
        \A i \in Stages, writeIdx \in {0, 1} :
            LET bg == createBindGroup(passes, mainDeps, globalTextures, i, writeIdx)
                lay == passLayouts[i]
            IN  /\ Len(bg) = Len(lay)
                /\ \A k \in DOMAIN bg :
                       /\ bg[k].binding = lay[k].binding
                       /\ ResourceKind(bg[k].resource) = LayoutKind(lay[k])

\* every kind of entry in one layout: a global texture, a compute stage with
\* image and linear buffer, an atomic stage and a fragment stage
C27_Witness ==
    /\ isCompiled
    /\ globalTextures # <<>>
    /\ \E c, a, x \in 1..Len(passes) :
         /\ passes[c].type = "compute" /\ passes[c].ntex = 1 /\ passes[c].storageBuffer
         /\ passes[a].isAtomic
         /\ passes[x].type = "fragment"
         /\ {c, a, x} \subseteq Range(resolved[Len(passes) + 1])


(***************************************************************************)
(* Properties of the byte ranges of the uniform entries.                   *)
(***************************************************************************)
\* what get byteSize returns in this state (it builds an unbuilt layout)
ByteSizeNow == 4 * Len(build(Layout).floatView)

\* C28: an entry ends before the next one starts, so the byte ranges of the
\* entries are pairwise disjoint and in strictly increasing offset order;
\* every range ends within the serialized buffer; a scalar added right after
\* a 3-vector starts at the 3-vector's end, in its padding.
C28_RangesDisjoint ==
    /\ \A j, k \in DOMAIN entries :
         j < k => /\ entries[j].size > 0
                  /\ entries[j].offset + entries[j].size <= entries[k].offset
    /\ \A k \in DOMAIN entries :
         /\ entries[k].offset >= 0
         /\ entries[k].offset + entries[k].size <= ByteSizeNow
    /\ \A k \in DOMAIN entries :
         (k > 1 /\ entries[k - 1].type = "vec3f" /\ entries[k].type = "f32") =>
             entries[k].offset = entries[k - 1].offset + 12

\* a client's 3-vector with padding before it and a scalar in the padding
\* after it
C28_Witness ==
    \E k \in UserEntries :
        /\ k + 1 \in UserEntries
        /\ entries[k].type = "vec3f"
        /\ entries[k].offset > entries[k - 1].offset + entries[k - 1].size
        /\ entries[k + 1].type = "f32"
        /\ entries[k + 1].offset + 4 = ByteSizeNow


(***************************************************************************)
(* Properties of the sequencer.                                            *)
(***************************************************************************)
RECURSIVE Elapsed(_, _)
\* the durations of the first k rows together
Elapsed(tl, k) == IF k = 0 THEN 0 ELSE Elapsed(tl, k - 1) + tl[k][1]

\* the row the playhead (ms * 441) / (20 * L) calls for: the first row that
\* is the last one, is a sentinel, or ends after the playhead
SceneAt(ms) ==
    CHOOSE i \in 1..Len(timeline) :
        /\ \/ i = Len(timeline)
           \/ timeline[i][1] >= Sentinel
           \/ ms * 441 < Elapsed(timeline, i) * 20 * L
        /\ \A j \in 1..(i - 1) :
               /\ timeline[j][1] < Sentinel
               /\ ms * 441 >= Elapsed(timeline, j) * 20 * L

\* C29: every update leaves its loop with a cursor inside the timeline, on
\* the row whose interval of cumulative durations holds the playhead (or on
\* the last row or the first sentinel row before that), returns that row's
\* flags and scene and a progress between 0 and 1; and an update at a later
\* time does not end on an earlier row.
C29_SequencerSelectsScene ==
    [][/\ seconds' >= 0 =>
            /\ state'.exits
            /\ state'.cursor \in 0..(Len(timeline') - 1)
            /\ state'.cursor + 1 = SceneAt(seconds)'
            /\ state'.flags = timeline'[state'.cursor + 1][2]
            /\ state'.sceneId = timeline'[state'.cursor + 1][3]
            /\ state'.progress[2] > 0
            /\ state'.progress[1] >= 0
            /\ state'.progress[1] <= state'.progress[2]
       /\ (seconds >= 0 /\ seconds' >= seconds) => state'.cursor >= state.cursor
      ]_vars

\* the playhead is past a sentinel row that has rows after it: the update
\* stays on it with progress 1
C29_Witness ==
    /\ seconds >= 0
    /\ state.cursor > 0
    /\ state.cursor + 1 < Len(timeline)
    /\ timeline[state.cursor + 1][1] = Sentinel
    /\ state.progress[1] = state.progress[2]


(***************************************************************************)
(* Properties of the timer.                                                *)
(***************************************************************************)
\* C30: never more than one resolve waits for its mapping, and isMapping is
\* set exactly while one does, so it is cleared when that call ends either
\* way; a step taken while one waits submits nothing and starts no further
\* wait; the pairs handed out since the last reset are (start, start + 1),
\* disjoint and below maxQueries.
C30_OneResolveInFlight ==
    [][/\ Len(awaiting') <= 1
       /\ isMapping' <=> Len(awaiting') = 1
       /\ mapState' = "pending" <=> Len(awaiting') = 1
       /\ isMapping => (submits' = submits /\ Len(awaiting') <= Len(awaiting))
       /\ \A pair \in handed' :
            /\ pair[1] >= 0
            /\ pair[2] = pair[1] + 1
            /\ pair[2] < maxQueries
       /\ \A p1, p2 \in handed' :
            p1 # p2 => {p1[1], p1[2]} \cap {p2[1], p2[2]} = {}
       /\ currentIndex' = 2 * Cardinality(handed')
      ]_vars

\* a second resolve waits for its mapping while every index is handed out
C30_Witness ==
    /\ isMapping
    /\ submits >= 2
    /\ results # {}
    /\ currentIndex = maxQueries
    /\ ENABLED TimerResolve

(***************************************************************************)
(* The baked replay against the live engine.                               *)
(***************************************************************************)
\* the resource the live engine binds to variable var of stage i
EngineBinds(i, var, writeIdx) ==
    LET lay == passLayouts[i]
        bg == createBindGroup(passes, mainDeps, globalTextures, i, writeIdx)
    IN  {bg[j].resource : j \in {j \in DOMAIN lay : lay[j].var = var}}

\* the runner encodes the stages in the order of declaration, terminal stage last
RunnerSameOrder ==
    \A n \in DOMAIN runnerFrames :
        LET cmds == runnerFrames[n].cmds
        IN  /\ Len(cmds) = Len(passes) + 1
            /\ \A k \in DOMAIN cmds :
                   /\ cmds[k].stage = k
                   /\ k <= Len(passes) =>
                          cmds[k].op = IF passes[k].type = "compute" THEN "dispatch"
                                                                     ELSE "draw"

\* the write slot alternates from one frame to the next
RunnerAlternates ==
    \A n \in DOMAIN runnerFrames :
        /\ runnerFrames[n].writeIdx \in {0, 1}
        /\ n > 1 => runnerFrames[n].writeIdx = 1 - runnerFrames[n - 1].writeIdx
        /\ \A k \in 1..Len(passes) :
               passes[k].type = "fragment" =>
                   runnerFrames[n].cmds[k].target = runnerFrames[n].writeIdx

\* what the runner binds is what the engine binds to the same variable
RunnerSameSlots ==
    \A n \in DOMAIN runnerFrames :
        \A k \in DOMAIN runnerFrames[n].cmds :
            \A d \in Range(graph.passes[k].shader) :
                \A e \in Range(runnerFrames[n].cmds[k].bindGroup) :
                    e.binding = d.binding =>
                        \A r \in EngineBinds(k, d.varName, runnerFrames[n].writeIdx) :
                            e.resource = r

\* every binding the baked shader declares has an entry
RunnerEveryBindingBound ==
    \A n \in DOMAIN runnerFrames :
        \A k \in DOMAIN runnerFrames[n].cmds :
            \A d \in Range(graph.passes[k].shader) :
                \E e \in Range(runnerFrames[n].cmds[k].bindGroup) :
                    e.binding = d.binding

\* C26: the runner replays a baked graph as the engine runs it: the same
\* order of stages, the write slot alternating, the same slot for a stage's
\* own prev_<name> and for another stage's <name>, and a bind-group entry for
\* every binding the stage's baked shader declares, prev_<other stage> and
\* global textures included.
C26_RunnerReplaysEngine ==
    /\ RunnerSameOrder
    /\ RunnerAlternates
    /\ RunnerSameSlots
    /\ RunnerEveryBindingBound

====
